---- MODULE Spec2Model ----
(***************************************************************************)
(* Spaced-repetition scheduling core of the flashcards service: the        *)
(* per-user-per-card progress document (UserProgress), the SM-2 method on  *)
(* the schema, the FSRS wrapper (FSRSService) and the algorithm selector,  *)
(* reset, suspend and migration operations of UserProgressService.         *)
(*                                                                         *)
(* One (userId, flashcardId) pair is modelled.  Dates are whole days and   *)
(* the operations explored all run on day 0; the date and responseTimeMs   *)
(* of a ledger entry, which no operation of the scheduler reads, are not   *)
(* kept.                                                                   *)
(* The easiness factor is kept in hundredths (2.5 is 250, 1.3 is 130) so   *)
(* that the SM-2 arithmetic is exact.                                      *)
(***************************************************************************)
EXTENDS Integers, Sequences, FiniteSets, TLC

VARIABLES db, now, last, inflight

vars == <<db, now, last, inflight>>

(* ------------------------------ bounds -------------------------------- *)

\* longest review history explored with every operation
MaxHistory == 2
\* longest review history explored when requests interleave
MaxConcHistory == 2
\* longest review history of the SM-2 scheduler taken alone
MaxSM2History == 5
\* longest review history of the FSRS scheduler taken alone
MaxFSRSHistory == 3
\* longest review history explored with the extreme ratings
MaxRangeHistory == 3

(* --------------------------- program constants ------------------------ *)

StateNew == 0
StateLearning == 1
StateReview == 2
StateRelearning == 3

Again == 1
Hard == 2
Good == 3
Easy == 4

InitialEF == 250
MinEF == 130
MasteredInterval == 21
MasteredStability == 30
MasteredScheduledDays == 21

\* ts-fsrs default learning steps ['1m','10m'] and relearning steps ['10m']
LearningStepCount == 2
RelearningStepCount == 1

NoDate == -1
NoQuality == -1

\* ratings the answer route lets through: rating 1..4 or quality 0..5
Ratings == 0..5

\* outcomes of the FSRS forgetting-curve formulas and of the interval fuzz
FsrsOutcomes ==
    { [stability |-> 1,  difficulty |-> 10, days |-> 1],
      [stability |-> 31, difficulty |-> 5,  days |-> 22],
      [stability |-> 31, difficulty |-> 1,  days |-> 21],
      [stability |-> 10, difficulty |-> 5,  days |-> 22] }

Procs == {1, 2}

(* ------------------------------ helpers ------------------------------- *)

Max(a, b) == IF a >= b THEN a ELSE b
Min(a, b) == IF a <= b THEN a ELSE b

\* Math.round(n / 100) for n >= 0
RoundHundredths(n) == (n + 50) \div 100

IsPrefix(s, t) == Len(s) <= Len(t) /\ SubSeq(t, 1, Len(s)) = s

(* -------------------------- the progress document --------------------- *)

\* schema defaults, with the fields getOrCreate passes
NewProgress(alg, t) ==
    [ algorithm       |-> alg,
      stability       |-> 0,
      fsrsDifficulty  |-> 0,
      elapsed_days    |-> 0,
      scheduled_days  |-> 0,
      learning_steps  |-> 0,
      fsrsState       |-> StateNew,
      easinessFactor  |-> InitialEF,
      repetitions     |-> 0,
      interval        |-> 0,
      nextReviewDate  |-> t,
      lastReviewDate  |-> NoDate,
      lastQuality     |-> NoQuality,
      reviewHistory   |-> << >>,
      totalReviews    |-> 0,
      correctCount    |-> 0,
      incorrectCount  |-> 0,
      state           |-> "new",
      lapses          |-> 0,
      isSuspended     |-> FALSE ]

\* the stored document of the pair (db is empty or a singleton)
Doc == CHOOSE c \in db : TRUE

(* ------------------------------ SM-2 ---------------------------------- *)

\* EF' = EF + (0.1 - (5 - q) * (0.08 + (5 - q) * 0.02)), in hundredths
EfChange(quality) == 10 - (5 - quality) * (8 + (5 - quality) * 2)

\* the update without its floor
NextEasinessFactorUnclamped(ef, quality) == ef + EfChange(quality)

NextEasinessFactor(ef, quality) == Max(MinEF, ef + EfChange(quality))

\* interval after a correct response
SM2Interval(repetitions, interval, ef) ==
    IF repetitions = 0 THEN 1
    ELSE IF repetitions = 1 THEN 6
    ELSE RoundHundredths(interval * ef)

\* the interval computed from the easiness factor already updated
SM2NextIntervalNewEF(p, quality) ==
    IF quality < 3 THEN 1
    ELSE SM2Interval(p.repetitions, p.interval,
                     Max(MinEF, p.easinessFactor + EfChange(quality)))

\* this.interval after the review: 1 after an incorrect response, else the
\* SM-2 interval computed from the easiness factor as it still is
SM2NextInterval(p, quality) ==
    IF quality < 3 THEN 1
    ELSE SM2Interval(p.repetitions, p.interval, p.easinessFactor)

\* an incorrect response that keeps the repetitions
SM2NextRepetitionsKept(p, quality) ==
    IF quality < 3 THEN p.repetitions ELSE p.repetitions + 1

\* this.repetitions after the review
SM2NextRepetitions(p, quality) ==
    IF quality < 3 THEN 0 ELSE p.repetitions + 1

\* a lapse counted on every incorrect response
SM2NextLapsesAnyFailure(p, quality) ==
    IF quality < 3 THEN p.lapses + 1 ELSE p.lapses

\* this.lapses after the review
SM2NextLapses(p, quality) ==
    IF quality < 3 /\ p.state \in {"review", "mastered"} THEN p.lapses + 1
    ELSE p.lapses

\* the promotion decided on the interval the card had before the review
SM2NextStateOldInterval(p, quality, newInterval) ==
    IF quality < 3
    THEN (IF p.state \in {"review", "mastered"} THEN "relearning" ELSE "learning")
    ELSE IF p.interval >= MasteredInterval THEN "mastered"
    ELSE IF newInterval >= 1 THEN "review"
    ELSE p.state

\* this.state after the review
SM2NextState(p, quality, newInterval) ==
    IF quality < 3
    THEN (IF p.state \in {"review", "mastered"} THEN "relearning" ELSE "learning")
    ELSE IF newInterval >= MasteredInterval THEN "mastered"
    ELSE IF newInterval >= 1 THEN "review"
    ELSE p.state

\* the statistics update of the SM-2 method
SM2Statistics(p, quality, t) ==
    [ p EXCEPT
        !.totalReviews   = p.totalReviews + 1,
        !.lastReviewDate = t,
        !.lastQuality    = quality,
        !.correctCount   = IF quality >= 3 THEN p.correctCount + 1 ELSE p.correctCount,
        !.incorrectCount = IF quality >= 3 THEN p.incorrectCount
                           ELSE p.incorrectCount + 1 ]

\* the ledger entry as it is pushed, before its intervalAfter is filled in
SM2EntryPlaceholder(p, quality, newInterval) ==
    [ quality        |-> quality,
      intervalBefore |-> p.interval,
      intervalAfter  |-> 0,
      algorithm      |-> "fsrs" ]

\* the ledger entry with the interval the review produced on both sides
SM2EntryNewInterval(p, quality, newInterval) ==
    [ quality        |-> quality,
      intervalBefore |-> newInterval,
      intervalAfter  |-> newInterval,
      algorithm      |-> "fsrs" ]

\* the ledger entry of the SM-2 method, with its final intervalAfter; the
\* push leaves algorithm to the schema default
SM2Entry(p, quality, newInterval) ==
    [ quality        |-> quality,
      intervalBefore |-> p.interval,
      intervalAfter  |-> newInterval,
      algorithm      |-> "fsrs" ]

\* UserProgressSchema.methods.processReview
SM2ProcessReview(p, quality, t) ==
    LET newInterval == SM2NextInterval(p, quality)
    IN  [ SM2Statistics(p, quality, t) EXCEPT
            !.reviewHistory  = Append(p.reviewHistory, SM2Entry(p, quality, newInterval)),
            !.repetitions    = SM2NextRepetitions(p, quality),
            !.interval       = newInterval,
            !.lapses         = SM2NextLapses(p, quality),
            !.state          = SM2NextState(p, quality, newInterval),
            !.easinessFactor = NextEasinessFactor(p.easinessFactor, quality),
            !.nextReviewDate = t + newInterval ]

\* UserProgressService.processReviewSM2, up to the save
ProcessReviewSM2(p, quality, t) ==
    [ SM2ProcessReview(p, quality, t) EXCEPT !.algorithm = "sm2" ]

(* ------------------------------ FSRS ---------------------------------- *)

\* the mapping with its first boundary one quality too low
QualityToRatingLowBoundary(quality) ==
    IF quality < 2 THEN Again
    ELSE IF quality <= 3 THEN Hard
    ELSE IF quality = 4 THEN Good
    ELSE Easy

\* FSRSService.qualityToRating
QualityToRating(quality) ==
    IF quality <= 2 THEN Again
    ELSE IF quality = 3 THEN Hard
    ELSE IF quality = 4 THEN Good
    ELSE Easy

\* FSRSService.getRating
GetRating(value) ==
    IF value = 1 THEN Again
    ELSE IF value = 2 THEN Hard
    ELSE IF value = 3 THEN Good
    ELSE IF value = 4 THEN Easy
    ELSE Again

\* FSRSService.isValidRating
IsValidRating(rating) == rating >= 1 /\ rating <= 4

\* FSRSService.fsrsStateToLegacyState
FsrsStateToLegacyState(fsrsState) ==
    IF fsrsState = StateNew THEN "new"
    ELSE IF fsrsState = StateLearning THEN "learning"
    ELSE IF fsrsState = StateReview THEN "review"
    ELSE IF fsrsState = StateRelearning THEN "relearning"
    ELSE "new"

\* FSRSService.legacyStateToFsrsState
LegacyStateToFsrsState(legacyState) ==
    IF legacyState = "new" THEN StateNew
    ELSE IF legacyState = "learning" THEN StateLearning
    ELSE IF legacyState = "review" THEN StateReview
    ELSE IF legacyState = "relearning" THEN StateRelearning
    ELSE IF legacyState = "mastered" THEN StateReview
    ELSE StateNew

\* FSRSService.progressToCard
ProgressToCard(p, t) ==
    [ due            |-> p.nextReviewDate,
      stability      |-> p.stability,
      difficulty     |-> p.fsrsDifficulty,
      elapsed_days   |-> p.elapsed_days,
      scheduled_days |-> p.scheduled_days,
      learning_steps |-> p.learning_steps,
      reps           |-> p.totalReviews,
      lapses         |-> p.lapses,
      state          |-> p.fsrsState,
      last_review    |-> p.lastReviewDate ]

\* the step the learning-steps strategy of the scheduler assigns, -1 when
\* the card graduates to Review
NextLearningStep(c, grade) ==
    LET steps == IF c.state = StateRelearning THEN RelearningStepCount
                 ELSE LearningStepCount
    IN  IF c.state = StateReview THEN (IF grade = Again THEN 0 ELSE -1)
        ELSE IF c.learning_steps >= steps THEN -1
        ELSE IF grade = Again THEN 0
        ELSE IF grade = Hard THEN c.learning_steps
        ELSE IF grade = Good /\ c.learning_steps + 1 < steps THEN c.learning_steps + 1
        ELSE -1

\* this.scheduler.next(card, reviewDate, grade) of the ts-fsrs scheduler
\* built with enable_short_term; out is the outcome of its stability,
\* difficulty and (fuzzed) interval formulas
SchedulerNext(c, t, grade, out) ==
    LET elapsed  == IF c.state # StateNew /\ c.last_review # NoDate
                    THEN t - c.last_review ELSE 0
        step     == NextLearningStep(c, grade)
        base     == [ c EXCEPT !.elapsed_days = elapsed,
                               !.reps         = c.reps + 1,
                               !.last_review  = t,
                               !.stability    = out.stability,
                               !.difficulty   = out.difficulty ]
        toState  == IF c.state = StateNew THEN StateLearning
                    ELSE IF c.state = StateReview THEN StateRelearning
                    ELSE c.state
        shortTerm == [ base EXCEPT !.learning_steps = step,
                                   !.scheduled_days = 0,
                                   !.state          = toState,
                                   !.due            = t ]
        graduated == [ base EXCEPT !.learning_steps = 0,
                                   !.scheduled_days = out.days,
                                   !.state          = StateReview,
                                   !.due            = t + out.days ]
    IN  IF c.state = StateReview
        THEN (IF grade = Again
              THEN [ shortTerm EXCEPT !.lapses = c.lapses + 1 ]
              ELSE graduated)
        ELSE (IF step = -1 THEN graduated ELSE shortTerm)

\* FSRSService.processReview
FsrsProcessReview(p, rating, t, out) ==
    SchedulerNext(ProgressToCard(p, t), t, rating, out)

\* the merge without the state of the card
AssignCardFieldsNoState(p, card) ==
    [ p EXCEPT
        !.nextReviewDate = card.due,
        !.stability      = card.stability,
        !.fsrsDifficulty = card.difficulty,
        !.elapsed_days   = card.elapsed_days,
        !.scheduled_days = card.scheduled_days,
        !.learning_steps = card.learning_steps,
        !.lapses         = card.lapses,
        !.lastReviewDate = card.last_review,
        !.state          = FsrsStateToLegacyState(card.state),
        !.interval       = card.scheduled_days ]

\* the merge without the lapses of the card
AssignCardFieldsNoLapses(p, card) ==
    [ p EXCEPT
        !.nextReviewDate = card.due,
        !.stability      = card.stability,
        !.fsrsDifficulty = card.difficulty,
        !.elapsed_days   = card.elapsed_days,
        !.scheduled_days = card.scheduled_days,
        !.learning_steps = card.learning_steps,
        !.fsrsState      = card.state,
        !.lastReviewDate = card.last_review,
        !.state          = FsrsStateToLegacyState(card.state),
        !.interval       = card.scheduled_days ]

\* FSRSService.cardToProgressFields merged into the document by Object.assign
AssignCardFields(p, card) ==
    [ p EXCEPT
        !.nextReviewDate = card.due,
        !.stability      = card.stability,
        !.fsrsDifficulty = card.difficulty,
        !.elapsed_days   = card.elapsed_days,
        !.scheduled_days = card.scheduled_days,
        !.learning_steps = card.learning_steps,
        !.lapses         = card.lapses,
        !.fsrsState      = card.state,
        !.lastReviewDate = card.last_review,
        !.state          = FsrsStateToLegacyState(card.state),
        !.interval       = card.scheduled_days ]

\* the promotion with its thresholds included
IsMasteredInclusive(stability, scheduledDays) ==
    stability >= MasteredStability /\ scheduledDays >= MasteredScheduledDays

\* promotion of the display state for high stability
IsMastered(stability, scheduledDays) ==
    stability > MasteredStability /\ scheduledDays > MasteredScheduledDays

\* the statistics update that forgets the incorrect answers
FsrsStatisticsCorrectOnly(p, rating) ==
    [ p EXCEPT
        !.totalReviews = p.totalReviews + 1,
        !.correctCount = IF rating >= Good THEN p.correctCount + 1
                         ELSE p.correctCount ]

\* the statistics update of processReviewFSRS
FsrsStatistics(p, rating) ==
    [ p EXCEPT
        !.totalReviews   = p.totalReviews + 1,
        !.correctCount   = IF rating >= Good THEN p.correctCount + 1
                           ELSE p.correctCount,
        !.incorrectCount = IF rating >= Good THEN p.incorrectCount
                           ELSE p.incorrectCount + 1 ]

\* UserProgressService.processReviewFSRS up to "progress.lastQuality = rating"
FsrsAssigned(p, rating, t, out) ==
    LET card    == FsrsProcessReview(p, rating, t, out)
        entry   == [ quality        |-> rating,
                     intervalBefore |-> p.scheduled_days,
                     intervalAfter  |-> card.scheduled_days,
                     algorithm      |-> "fsrs" ]
        counted == [ FsrsStatistics(p, rating) EXCEPT
                       !.reviewHistory = Append(p.reviewHistory, entry) ]
    IN  [ AssignCardFields(counted, card) EXCEPT
            !.algorithm   = "fsrs",
            !.lastQuality = rating ]

\* UserProgressService.processReviewFSRS, up to the save
ProcessReviewFSRS(p, rating, t, out) ==
    LET assigned == FsrsAssigned(p, rating, t, out)
    IN  IF IsMastered(assigned.stability, assigned.scheduled_days)
        THEN [ assigned EXCEPT !.state = "mastered" ]
        ELSE assigned

(* ------------------ algorithm selector and persistence ---------------- *)

\* the rating handed to processReviewFSRS
FsrsRatingOf(rating, useLegacyQuality) ==
    IF useLegacyQuality THEN QualityToRating(rating) ELSE GetRating(rating)

\* the document as processReview leaves it in memory just before the
\* mastered promotion (SM-2 has no such second assignment)
ReviewAssigned(p, rating, useLegacyQuality, t, out) ==
    IF p.algorithm = "fsrs"
    THEN FsrsAssigned(p, FsrsRatingOf(rating, useLegacyQuality), t, out)
    ELSE ProcessReviewSM2(p, rating, t)

\* UserProgressService.processReview: the document handed to save()
ReviewComputed(p, rating, useLegacyQuality, t, out) ==
    IF p.algorithm = "fsrs"
    THEN ProcessReviewFSRS(p, FsrsRatingOf(rating, useLegacyQuality), t, out)
    ELSE ProcessReviewSM2(p, rating, t)

\* a save that writes the whole in-memory document
SaveWholeDocument(cur, snap, mid, doc) == doc

\* a save that $sets reviewHistory to the pushed entries
SaveReplacingHistory(cur, snap, mid, doc) ==
    [ f \in DOMAIN doc |->
        IF f = "reviewHistory"
        THEN SubSeq(doc.reviewHistory, Len(snap.reviewHistory) + 1, Len(doc.reviewHistory))
        ELSE doc[f] ]

\* progress.save() of a loaded document: the paths whose assignment changed
\* them are $set, the entries pushed on reviewHistory are $push-ed; cur is
\* the stored document, snap the document as loaded, mid and doc the
\* in-memory document before and after its last assignment
Save(cur, snap, mid, doc) ==
    [ f \in DOMAIN doc |->
        IF f = "reviewHistory"
        THEN cur.reviewHistory \o
             SubSeq(doc.reviewHistory, Len(snap.reviewHistory) + 1, Len(doc.reviewHistory))
        ELSE IF doc[f] # snap[f] \/ mid[f] # snap[f] THEN doc[f]
        ELSE cur[f] ]

\* the $set of resetCard
ResetFields(p, t) ==
    [ p EXCEPT
        !.easinessFactor = InitialEF,
        !.repetitions    = 0,
        !.interval       = 0,
        !.stability      = 0,
        !.fsrsDifficulty = 0,
        !.elapsed_days   = 0,
        !.scheduled_days = 0,
        !.learning_steps = 0,
        !.fsrsState      = StateNew,
        !.nextReviewDate = t,
        !.state          = "new",
        !.lapses         = 0,
        !.totalReviews   = 0,
        !.correctCount   = 0,
        !.incorrectCount = 0 ]

\* Math.round(10 - ((ef - 1.3) / 1.2) * 9) with ef in hundredths
MigratedDifficulty(ef) == (1200 - 9 * (ef - MinEF) + 60) \div 120

\* the $set with the difficulty as the formula gives it, not clamped
MigrateFieldsUnclamped(cur, snap) ==
    [ cur EXCEPT
        !.algorithm      = "fsrs",
        !.stability      = snap.interval,
        !.fsrsDifficulty = MigratedDifficulty(snap.easinessFactor),
        !.fsrsState      = LegacyStateToFsrsState(snap.state),
        !.elapsed_days   = 0,
        !.scheduled_days = snap.interval,
        !.learning_steps = 0 ]

\* a migration that starts the FSRS schedule from no interval
MigrateFieldsNoSchedule(cur, snap) ==
    [ cur EXCEPT
        !.algorithm      = "fsrs",
        !.stability      = snap.interval,
        !.fsrsDifficulty = Max(1, Min(10, MigratedDifficulty(snap.easinessFactor))),
        !.fsrsState      = LegacyStateToFsrsState(snap.state),
        !.elapsed_days   = 0,
        !.scheduled_days = 0,
        !.learning_steps = 0 ]

\* the $set of migrateToFSRS: cur is the stored document, snap the document
\* getOrCreate returned
MigrateFields(cur, snap) ==
    [ cur EXCEPT
        !.algorithm      = "fsrs",
        !.stability      = snap.interval,
        !.fsrsDifficulty = Max(1, Min(10, MigratedDifficulty(snap.easinessFactor))),
        !.fsrsState      = LegacyStateToFsrsState(snap.state),
        !.elapsed_days   = 0,
        !.scheduled_days = snap.interval,
        !.learning_steps = 0 ]

\* the document getOrCreate returns when every await runs without
\* interleaving
GetOrCreate(t) == IF db = {} THEN NewProgress("fsrs", t) ELSE Doc

(* --------------------- handlers, run without interleaving ------------- *)

Idle == [ pc |-> "idle", kind |-> "none", rating |-> 0, legacy |-> FALSE,
          snap |-> {}, t |-> 0 ]

\* record of the operation that ran last: its arguments, the stored
\* documents before it and the document it was computed from
Op(name, rating, legacy, snap) ==
    [ op |-> name, rating |-> rating, legacy |-> legacy, pre |-> db, snap |-> snap ]


Init ==
    /\ db \in { {}, {NewProgress("sm2", 0)} }
    /\ now = 0
    /\ last = [ op |-> "init", rating |-> 0, legacy |-> FALSE, pre |-> {}, snap |-> {} ]
    /\ inflight = [ p \in Procs |-> Idle ]

\* UserProgressService.processReview, on a history shorter than bound
Review(rating, useLegacyQuality, out, bound) ==
    LET p   == GetOrCreate(now)
        mid == ReviewAssigned(p, rating, useLegacyQuality, now, out)
        doc == ReviewComputed(p, rating, useLegacyQuality, now, out)
    IN  /\ Len(p.reviewHistory) < bound
        /\ db' = { Save(p, p, mid, doc) }
        /\ last' = Op("processReview", rating, useLegacyQuality, {p})
        /\ UNCHANGED <<now, inflight>>

ProcessReview(rating, useLegacyQuality, out) ==
    Review(rating, useLegacyQuality, out, MaxHistory)

\* findOneAndUpdate of resetCard, suspendCard and unsuspendCard: one atomic
\* update of the stored document, nothing when there is none
ResetUpdate == db' = { ResetFields(c, now) : c \in db }

\* a suspension that also clears the due date
SuspendUpdateClearingDue ==
    db' = { [ c EXCEPT !.isSuspended = TRUE, !.nextReviewDate = NoDate ] : c \in db }

SuspendUpdate == db' = { [ c EXCEPT !.isSuspended = TRUE ] : c \in db }

UnsuspendUpdate == db' = { [ c EXCEPT !.isSuspended = FALSE ] : c \in db }

ResetCard ==
    /\ ResetUpdate
    /\ last' = Op("resetCard", 0, FALSE, db)
    /\ UNCHANGED <<now, inflight>>

SuspendCard ==
    /\ SuspendUpdate
    /\ last' = Op("suspendCard", 0, FALSE, db)
    /\ UNCHANGED <<now, inflight>>

UnsuspendCard ==
    /\ UnsuspendUpdate
    /\ last' = Op("unsuspendCard", 0, FALSE, db)
    /\ UNCHANGED <<now, inflight>>

\* a migration that converts whatever the owner of the card
MigrateToFSRSUnguarded ==
    LET p == GetOrCreate(now)
    IN  /\ db' = { MigrateFields(p, p) }
        /\ last' = Op("migrateToFSRS", 0, FALSE, {p})
        /\ UNCHANGED <<now, inflight>>

MigrateToFSRS ==
    LET p == GetOrCreate(now)
    IN  /\ db' = IF p.algorithm = "fsrs" THEN {p} ELSE { MigrateFields(p, p) }
        /\ last' = Op("migrateToFSRS", 0, FALSE, {p})
        /\ UNCHANGED <<now, inflight>>

\* a preview that stores the card scheduler.repeat computed for Good
GetSchedulingPreviewStoring ==
    LET p == GetOrCreate(now)
    IN  /\ \E out \in FsrsOutcomes :
              db' = { AssignCardFields(p, FsrsProcessReview(p, Good, now, out)) }
        /\ last' = Op("getSchedulingPreview", 0, FALSE, {p})
        /\ UNCHANGED <<now, inflight>>

\* UserProgressService.getSchedulingPreview: getOrCreate, then
\* getSchedulingOptions on the document in memory; the options go to the
\* caller and nothing is saved
GetSchedulingPreview ==
    LET p == GetOrCreate(now)
    IN  /\ db' = {p}
        /\ last' = Op("getSchedulingPreview", 0, FALSE, {p})
        /\ UNCHANGED <<now, inflight>>

\* UserProgressService.getRetrievability: getOrCreate, then the forgetting
\* curve on the document in memory; the number goes to the caller
GetRetrievability ==
    LET p == GetOrCreate(now)
    IN  /\ db' = {p}
        /\ last' = Op("getRetrievability", 0, FALSE, {p})
        /\ UNCHANGED <<now, inflight>>

Next ==
    \/ \E rating \in Ratings, legacy \in BOOLEAN, out \in FsrsOutcomes :
          ProcessReview(rating, legacy, out)
    \/ ResetCard
    \/ SuspendCard
    \/ UnsuspendCard
    \/ MigrateToFSRS
    \/ GetSchedulingPreview
    \/ GetRetrievability

Spec == Init /\ [][Next]_vars

(* ------------- the SM-2 scheduler on a card it owns, taken alone ------- *)

SM2Review(rating, useLegacyQuality) ==
    /\ db # {}
    /\ Doc.algorithm = "sm2"
    /\ \E out \in FsrsOutcomes : Review(rating, useLegacyQuality, out, MaxSM2History)

InitSM2 == Init /\ db # {}

NextSM2 ==
    \/ \E rating \in Ratings, legacy \in BOOLEAN : SM2Review(rating, legacy)
    \/ MigrateToFSRS

SpecSM2 == InitSM2 /\ [][NextSM2]_vars

(* ------------- the FSRS scheduler on a card it owns, taken alone ------- *)

FSRSReview(rating, useLegacyQuality, out) ==
    /\ GetOrCreate(now).algorithm = "fsrs"
    /\ Review(rating, useLegacyQuality, out, MaxFSRSHistory)

NextFSRS ==
    \/ \E rating \in Ratings, legacy \in BOOLEAN, out \in FsrsOutcomes :
          FSRSReview(rating, legacy, out)
    \/ MigrateToFSRS

SpecFSRS == Init /\ [][NextFSRS]_vars

(* ------ reviews at the two ends of the quality scale, with reset ------- *)

\* the lowest and the highest quality the answer route lets through
ExtremeRatings == {0, 5}

ExtremeReview(rating, useLegacyQuality, out) ==
    /\ rating \in ExtremeRatings
    /\ Review(rating, useLegacyQuality, out, MaxRangeHistory)

NextRange ==
    \/ \E rating \in ExtremeRatings, legacy \in BOOLEAN, out \in FsrsOutcomes :
          ExtremeReview(rating, legacy, out)
    \/ MigrateToFSRS
    \/ ResetCard

SpecRange == InitSM2 /\ [][NextRange]_vars

(* -------------- reviews and migrations, without any reset -------------- *)

NextLedger ==
    \/ \E rating \in ExtremeRatings, legacy \in BOOLEAN, out \in FsrsOutcomes :
          ExtremeReview(rating, legacy, out)
    \/ MigrateToFSRS

SpecLedger == Init /\ [][NextLedger]_vars

(* ---------------- runs of successful SM-2 reviews ----------------------- *)

\* the qualities the SM-2 method counts as a success (quality >= 3)
SuccessRatings == 3..5

\* successes after which every SM-2 card is looked at
MaxSuccesses == 7

\* the card is in display state mastered, with the interval that earns it
Mastered(p) == p.interval >= MasteredInterval /\ p.state = "mastered"

\* whatever their qualities, at most n successful SM-2 reviews in a row
\* take the card p to mastered
RECURSIVE MasteredWithin(_, _, _)
MasteredWithin(p, t, n) ==
    /\ n > 0
    /\ \A c \in { ProcessReviewSM2(p, q, t) : q \in SuccessRatings } :
          Mastered(c) \/ MasteredWithin(c, t, n - 1)

\* reviews of the SM-2 card before the run of successes
MaxMasteryHistory == 3

MasteryReview(rating, useLegacyQuality) ==
    /\ db # {}
    /\ Doc.algorithm = "sm2"
    /\ \E out \in FsrsOutcomes :
          Review(rating, useLegacyQuality, out, MaxMasteryHistory)

NextMastery ==
    \E rating \in Ratings, legacy \in BOOLEAN : MasteryReview(rating, legacy)

SpecMastery == InitSM2 /\ [][NextMastery]_vars

(* ------------------ the forgetting curve, with a clock ----------------- *)

\* FACTOR = 19 / 81
FactorNum == 19
FactorDen == 81

\* a number the forgetting curve returns: NaN, or the non-negative number
\* whose square is num / den
Number(num, den) == [ nan |-> FALSE, num |-> num, den |-> den ]
NaN == [ nan |-> TRUE, num |-> 0, den |-> 1 ]
Zero == Number(0, 1)
One == Number(1, 1)

\* Math.max(0, Math.min(1, retrievability)): NaN passes through both
Clamp(r) ==
    IF r.nan THEN NaN
    ELSE IF r.num > r.den THEN One
    ELSE r

\* Math.pow(1 + FACTOR * elapsedDays / stability, DECAY) with FACTOR = 19/81
\* and DECAY = -0.5: 0 / 0 and a negative finite base give NaN, any other
\* division by zero an infinite base and the power 0, a base of 0 an
\* infinite power, which is written here as a number above 1
ForgettingCurve(elapsedDays, stability) ==
    LET num == FactorDen * stability + FactorNum * elapsedDays
        den == FactorDen * stability
    IN  IF stability = 0
        THEN (IF elapsedDays = 0 THEN NaN ELSE Zero)
        ELSE IF num = 0 THEN Number(2, 1)
        ELSE IF (num < 0) # (den < 0) THEN NaN
        ELSE IF den < 0 THEN Number(-den, -num)
        ELSE Number(den, num)

\* the forgetting curve of every card, new or not
RetrievabilityUnguarded(p, t) ==
    LET card       == ProgressToCard(p, t)
        lastReview == IF card.last_review = NoDate THEN t ELSE card.last_review
    IN  Clamp(ForgettingCurve(t - lastReview, card.stability))

\* FSRSService.getRetrievability(progress) at the time t of the call
Retrievability(p, t) ==
    LET card       == ProgressToCard(p, t)
        lastReview == IF card.last_review = NoDate THEN t ELSE card.last_review
    IN  IF card.state = StateNew \/ card.stability = 0
        THEN Zero
        ELSE Clamp(ForgettingCurve(t - lastReview, card.stability))

\* days of the clock, and reviews of a card, in the runs with a clock
MaxClock == 2
MaxClockHistory == 2

\* a day passes between two requests
Tick ==
    /\ now < MaxClock
    /\ now' = now + 1
    /\ UNCHANGED <<db, last, inflight>>

ClockReview(rating, useLegacyQuality, out) ==
    /\ rating \in ExtremeRatings
    /\ Review(rating, useLegacyQuality, out, MaxClockHistory)

NextClock ==
    \/ Tick
    \/ \E rating \in ExtremeRatings, legacy \in BOOLEAN, out \in FsrsOutcomes :
          ClockReview(rating, legacy, out)
    \/ MigrateToFSRS
    \/ ResetCard
    \/ GetRetrievability

SpecClock == Init /\ [][NextClock]_vars

(* ------------------- the answer route of the study API ---------------- *)

\* a field the request body does not carry
Absent == -1

\* values of the rating and quality fields of the submitted bodies
BodyValues == {Absent} \cup (0..6)

\* StudyService.submitAnswer(userId, flashcardId, quality, responseTimeMs):
\* the method has no fifth parameter, so the flag the route passes is
\* dropped and processReview runs with its default useLegacyQuality = false
SubmitAnswer(quality, useLegacyQuality, out) ==
    LET p   == GetOrCreate(now)
        mid == ReviewAssigned(p, quality, FALSE, now, out)
        doc == ReviewComputed(p, quality, FALSE, now, out)
    IN  /\ Len(p.reviewHistory) < MaxHistory
        /\ db' = { Save(p, p, mid, doc) }
        /\ UNCHANGED <<now, inflight>>

\* the 400 responses of the route
BadRequest ==
    /\ last' = Op("badRequest", 0, FALSE, {})
    /\ UNCHANGED <<db, now, inflight>>

\* POST /study/:userId/answer/:flashcardId; the record of the operation
\* tells a body with a rating from a body with a quality only
PostAnswer(rating, quality, useLegacyQuality, out) ==
    IF rating # Absent
    THEN (IF ~IsValidRating(rating) THEN BadRequest
          ELSE /\ SubmitAnswer(rating, FALSE \/ useLegacyQuality, out)
               /\ last' = Op("answerRating", rating, FALSE \/ useLegacyQuality,
                             {GetOrCreate(now)}))
    ELSE IF quality # Absent
    THEN (IF quality < 0 \/ quality > 5 THEN BadRequest
          ELSE /\ SubmitAnswer(quality, TRUE \/ useLegacyQuality, out)
               /\ last' = Op("answerQuality", quality, TRUE \/ useLegacyQuality,
                             {GetOrCreate(now)}))
    ELSE BadRequest

NextAnswer ==
    \/ \E rating \in BodyValues, quality \in BodyValues, flag \in BOOLEAN,
          out \in FsrsOutcomes : PostAnswer(rating, quality, flag, out)
    \/ MigrateToFSRS

SpecAnswer == Init /\ [][NextAnswer]_vars

(* ------------- study sessions over the cards of one user -------------- *)

\* flashcards of the user, and reviews of each of them
MaxCards == 2
MaxSessionHistory == 1

Flashcards == 1..MaxCards

\* limits of the session requests: the ones submitAnswer asks for and the
\* defaults of getStudySession
NewCardsLimits == {1, 10}
ReviewCardsLimits == {5, 20}
LearningCardsLimit == 10

\* the progress document of flashcard f
WithFlashcard(doc, f) ==
    [ k \in DOMAIN doc \cup {"flashcardId"} |->
        IF k = "flashcardId" THEN f ELSE doc[k] ]

\* UserProgress.findOne({userId, flashcardId}): the stored documents of f
ProgressOf(f) == { c \in db : c.flashcardId = f }

\* getOrCreate for flashcard f, as run by a first request for the pair
CreateProgress(f) ==
    /\ ProgressOf(f) = {}
    /\ db' = db \cup { WithFlashcard(NewProgress("fsrs", now), f) }
    /\ last' = Op("getOrCreate", 0, FALSE, {})
    /\ UNCHANGED <<now, inflight>>

\* UserProgressService.processReview for the stored card of flashcard f
AnswerCard(f, rating, useLegacyQuality, out) ==
    /\ ProgressOf(f) # {}
    /\ LET p   == CHOOSE c \in ProgressOf(f) : TRUE
           mid == ReviewAssigned(p, rating, useLegacyQuality, now, out)
           doc == ReviewComputed(p, rating, useLegacyQuality, now, out)
       IN  /\ Len(p.reviewHistory) < MaxSessionHistory
           /\ db' = (db \ {p}) \cup { Save(p, p, mid, doc) }
           /\ last' = Op("processReview", rating, useLegacyQuality, {p})
    /\ UNCHANGED <<now, inflight>>

\* UserProgressService.suspendCard for flashcard f
SuspendProgress(f) ==
    /\ \E c \in ProgressOf(f) : ~c.isSuspended
    /\ db' = { IF c.flashcardId = f THEN [ c EXCEPT !.isSuspended = TRUE ] ELSE c
               : c \in db }
    /\ last' = Op("suspendCard", 0, FALSE, ProgressOf(f))
    /\ UNCHANGED <<now, inflight>>

\* the filters of getLearningCards, getDueCards and getNewCards
LearningCards == { c \in db : c.state \in {"learning", "relearning"} /\ ~c.isSuspended }
DueCards == { c \in db : c.nextReviewDate <= now /\ ~c.isSuspended }
NewCards == { c \in db : c.state = "new" /\ ~c.isSuspended }

\* find(...).sort({nextReviewDate: 1}).limit(limit), or without the sort
\* when sorted is FALSE: the lists the query can return
Find(matching, sorted, limit) ==
    LET n == Min(limit, Cardinality(matching))
    IN  { s \in [1..n -> matching] :
            /\ \A i, j \in 1..n : i # j => s[i] # s[j]
            /\ sorted =>
                  /\ \A i, j \in 1..n : i < j => s[i].nextReviewDate <= s[j].nextReviewDate
                  /\ \A c \in matching :
                        (\A i \in 1..n : s[i] # c) =>
                            \A i \in 1..n : s[i].nextReviewDate <= c.nextReviewDate }

\* StudyService.getStudySession: the three queries and the session queue
GetStudySession(newCardsLimit, reviewCardsLimit, learningFirst) ==
    /\ \E learningCards \in Find(LearningCards, TRUE, LearningCardsLimit),
          dueCards \in Find(DueCards, TRUE, reviewCardsLimit),
          newCards \in Find(NewCards, FALSE, newCardsLimit) :
          last' = [ op |-> "getStudySession", rating |-> 0, legacy |-> learningFirst,
                    pre |-> db, snap |-> {},
                    cards |-> IF learningFirst
                              THEN learningCards \o dueCards \o newCards
                              ELSE dueCards \o learningCards \o newCards ]
    /\ UNCHANGED <<db, now, inflight>>

InitSession ==
    /\ db = {}
    /\ now = 0
    /\ last = [ op |-> "init", rating |-> 0, legacy |-> FALSE, pre |-> {}, snap |-> {} ]
    /\ inflight = [ p \in Procs |-> Idle ]

NextSession ==
    \/ \E f \in Flashcards : CreateProgress(f)
    \/ \E f \in Flashcards, rating \in ExtremeRatings, legacy \in BOOLEAN,
          out \in FsrsOutcomes : AnswerCard(f, rating, legacy, out)
    \/ \E f \in Flashcards : SuspendProgress(f)
    \/ Tick
    \/ \E newCardsLimit \in NewCardsLimits, reviewCardsLimit \in ReviewCardsLimits,
          learningFirst \in BOOLEAN :
          GetStudySession(newCardsLimit, reviewCardsLimit, learningFirst)

SpecSession == InitSession /\ [][NextSession]_vars

(* ------------- handlers, one step per database round trip ------------- *)

\* (rating, useLegacyQuality) pairs submitted by the interleaved requests:
\* a failed and a passed answer, one of them as a legacy quality
ConcInputs == { <<1, FALSE>>, <<4, TRUE>> }

\* scheduler outcomes explored for the interleaved requests
ConcOutcomes == { o \in FsrsOutcomes : o.days > MasteredScheduledDays }

\* reviews that were started and not yet saved
PendingReviews == { p \in Procs : inflight[p].kind = "review" }

StoredHistoryLen == IF db = {} THEN 0 ELSE Len(Doc.reviewHistory)

\* getOrCreate: UserProgress.findOne
Begin(p, kind, rating, legacy) ==
    /\ inflight[p].pc = "idle"
    /\ inflight' = [ inflight EXCEPT ![p] =
                       [ pc     |-> IF db = {} THEN "creating" ELSE "loaded",
                         kind   |-> kind,
                         rating |-> rating,
                         legacy |-> legacy,
                         snap   |-> db,
                         t      |-> now ] ]
    /\ UNCHANGED <<db, now, last>>

BeginReview(p, rating, legacy) ==
    /\ StoredHistoryLen + Cardinality(PendingReviews) < MaxConcHistory
    /\ Begin(p, "review", rating, legacy)

BeginMigrate(p) == Begin(p, "migrate", 0, FALSE)

\* the insert of getOrCreate on a collection without the unique index
CreateWithoutIndex(p) ==
    /\ inflight[p].pc = "creating"
    /\ db' = db \cup { NewProgress("fsrs", now) }
    /\ inflight' = [ inflight EXCEPT ![p].pc = "loaded",
                                     ![p].snap = { NewProgress("fsrs", now) },
                                     ![p].t = now ]
    /\ UNCHANGED <<now, last>>

\* getOrCreate: new UserProgress(...).save() under the unique index on
\* (userId, flashcardId); a second insert fails with a duplicate key error
\* and the request ends
Create(p) ==
    /\ inflight[p].pc = "creating"
    /\ IF db = {}
       THEN /\ db' = { NewProgress("fsrs", now) }
            /\ inflight' = [ inflight EXCEPT ![p].pc = "loaded",
                                             ![p].snap = { NewProgress("fsrs", now) },
                                             ![p].t = now ]
            /\ last' = last
       ELSE /\ db' = db
            /\ inflight' = [ inflight EXCEPT ![p] = Idle ]
            /\ last' = last
    /\ UNCHANGED now

\* processReview from "const now = new Date()" to the end of save()
FinishReview(p, out) ==
    LET r    == inflight[p]
        snap == CHOOSE c \in r.snap : TRUE
        mid  == ReviewAssigned(snap, r.rating, r.legacy, r.t, out)
        doc  == ReviewComputed(snap, r.rating, r.legacy, r.t, out)
    IN  /\ r.pc = "loaded"
        /\ r.kind = "review"
        /\ db' = { Save(Doc, snap, mid, doc) }
        /\ inflight' = [ inflight EXCEPT ![p] = Idle ]
        /\ last' = last
        /\ UNCHANGED now

\* processReview when save() rejects: the error goes to the route, which
\* answers 500; nothing was written
FailReview(p) ==
    /\ inflight[p].pc = "loaded"
    /\ inflight[p].kind = "review"
    /\ inflight' = [ inflight EXCEPT ![p] = Idle ]
    /\ UNCHANGED <<db, now, last>>

\* migrateToFSRS after getOrCreate: UserProgress.findOneAndUpdate
FinishMigrate(p) ==
    LET r    == inflight[p]
        snap == CHOOSE c \in r.snap : TRUE
    IN  /\ r.pc = "loaded"
        /\ r.kind = "migrate"
        /\ db' = IF snap.algorithm = "fsrs" THEN db ELSE { MigrateFields(Doc, snap) }
        /\ inflight' = [ inflight EXCEPT ![p] = Idle ]
        /\ last' = last
        /\ UNCHANGED now

ConcResetCard ==
    /\ ResetUpdate
    /\ last' = last
    /\ UNCHANGED <<now, inflight>>

ConcSuspendCard ==
    /\ SuspendUpdate
    /\ last' = last
    /\ UNCHANGED <<now, inflight>>

ConcUnsuspendCard ==
    /\ UnsuspendUpdate
    /\ last' = last
    /\ UNCHANGED <<now, inflight>>

NextConc ==
    \/ \E p \in Procs, in \in ConcInputs : BeginReview(p, in[1], in[2])
    \/ \E p \in Procs : BeginMigrate(p)
    \/ \E p \in Procs : Create(p)
    \/ \E p \in Procs, out \in ConcOutcomes : FinishReview(p, out)
    \/ \E p \in Procs : FinishMigrate(p)
    \/ ConcResetCard
    \/ ConcSuspendCard
    \/ ConcUnsuspendCard

SpecConc == Init /\ [][NextConc]_vars

(* ------- review requests whose save may fail, next to a reset --------- *)

NextReviews ==
    \/ \E p \in Procs, in \in ConcInputs : BeginReview(p, in[1], in[2])
    \/ \E p \in Procs : Create(p)
    \/ \E p \in Procs, out \in ConcOutcomes : FinishReview(p, out)
    \/ \E p \in Procs : FailReview(p)
    \/ ConcResetCard

SpecReviews == Init /\ [][NextReviews]_vars

(* ------------------------------ properties ---------------------------- *)

\* the document the last operation was computed from
LastSnap == CHOOSE c \in last.snap : TRUE

\* the last operation was a review dispatched to the SM-2 scheduler
ReviewedSM2 ==
    /\ last.op = "processReview"
    /\ last.snap # {}
    /\ LastSnap.algorithm = "sm2"
    /\ db # {}

\* the last operation was a review dispatched to the FSRS scheduler
ReviewedFSRS ==
    /\ last.op = "processReview"
    /\ last.snap # {}
    /\ LastSnap.algorithm = "fsrs"
    /\ db # {}

\* the ledger entry the last review appended
LastEntry == Doc.reviewHistory[Len(Doc.reviewHistory)]

\* C1: right after every processReview the length of reviewHistory equals
\* totalReviews
HistoryLengthIsTotalReviews ==
    last.op = "processReview" =>
        \A c \in db : Len(c.reviewHistory) = c.totalReviews

\* C2: correctCount + incorrectCount = totalReviews in every reachable state
CountsAddUp ==
    \A c \in db : c.correctCount + c.incorrectCount = c.totalReviews

CountsAddUpWitness ==
    /\ ReviewedFSRS
    /\ Doc.correctCount >= 1
    /\ Doc.incorrectCount >= 1

\* C3: the easiness factor never drops below 1.3
EasinessFloor ==
    \A c \in db : c.easinessFactor >= MinEF

EasinessFloorWitness ==
    /\ ReviewedSM2
    /\ last.rating = 0
    /\ LastSnap.easinessFactor + EfChange(0) < MinEF
    /\ Doc.easinessFactor = MinEF

\* C4: a card owned by FSRS stays owned by FSRS, and the owner of a card
\* changes only in the update of migrateToFSRS
MigrationOneWay ==
    [][ /\ (db # {} => db' # {})
        /\ \A c \in db, d \in db' :
              /\ c.algorithm = "fsrs" => d.algorithm = "fsrs"
              /\ c.algorithm # d.algorithm => \E p \in Procs : FinishMigrate(p) ]_vars

\* an SM-2 review that was loaded before a migration and saved after it
MigrationOneWayWitness ==
    /\ db # {}
    /\ Doc.algorithm = "fsrs"
    /\ Doc.stability = 0
    /\ Doc.repetitions = 1
    /\ Doc.interval = 1
    /\ Len(Doc.reviewHistory) = 1
    /\ \A p \in Procs : inflight[p].pc = "idle"

\* C5: every operation leaves the earlier ledger entries as they were;
\* processReview appends exactly one entry, the other operations none
HistoryAppendOnly ==
    /\ \A b \in last.pre, c \in db : IsPrefix(b.reviewHistory, c.reviewHistory)
    /\ last.op = "processReview" =>
          \A c \in db : /\ IsPrefix(LastSnap.reviewHistory, c.reviewHistory)
                        /\ Len(c.reviewHistory) = Len(LastSnap.reviewHistory) + 1
    /\ last.op \in {"resetCard", "suspendCard", "unsuspendCard", "migrateToFSRS"} =>
          \A b \in last.snap, c \in db : c.reviewHistory = b.reviewHistory

HistoryAppendOnlyWitness ==
    /\ last.op = "processReview"
    /\ db # {}
    /\ Len(Doc.reviewHistory) >= 2
    /\ Doc.totalReviews = 1

\* C6: a review of an FSRS card with a rating outside 1..4 that is not a
\* legacy quality leaves the stored card as it was
InvalidRatingRejected ==
    (ReviewedFSRS /\ ~last.legacy /\ last.rating \notin 1..4) => db = last.snap

\* C7: a legacy quality on an FSRS card is applied as Again for 0, 1 and 2,
\* Hard for 3, Good for 4 and Easy for 5; an SM-2 card gets the raw quality
LegacyQualityMapping ==
    /\ (ReviewedFSRS /\ last.legacy) =>
          LET applied == CASE last.rating \in {0, 1, 2} -> Again
                           [] last.rating = 3 -> Hard
                           [] last.rating = 4 -> Good
                           [] last.rating = 5 -> Easy
          IN  /\ Doc.lastQuality = applied
              /\ LastEntry.quality = applied
              /\ Doc.algorithm = "fsrs"
    /\ ReviewedSM2 =>
          /\ Doc.lastQuality = last.rating
          /\ LastEntry.quality = last.rating
          /\ Doc.algorithm = "sm2"
          /\ Doc.easinessFactor =
                Max(MinEF, LastSnap.easinessFactor + EfChange(last.rating))

LegacyQualityMappingWitness ==
    /\ ReviewedFSRS
    /\ last.legacy
    /\ last.rating = 2
    /\ LastSnap.fsrsState = StateReview
    /\ Doc.fsrsState = StateRelearning

\* C8: an SM-2 review with a rating in 0..2 sets repetitions to 0 and
\* interval to 1
SM2FailureResets ==
    (ReviewedSM2 /\ last.rating \in 0..2) =>
        /\ Doc.repetitions = 0
        /\ Doc.interval = 1

SM2FailureResetsWitness ==
    /\ ReviewedSM2
    /\ last.rating \in 0..2
    /\ LastSnap.repetitions >= 2
    /\ LastSnap.interval > 6

\* C9: an SM-2 review with a rating of 3 or more sets the interval to 1 from
\* repetitions 0, to 6 from repetitions 1 and else to the old interval times
\* the old easiness factor, rounded, and adds 1 to repetitions
SM2SuccessInterval ==
    (ReviewedSM2 /\ last.rating >= 3) =>
        /\ Doc.interval =
              IF LastSnap.repetitions = 0 THEN 1
              ELSE IF LastSnap.repetitions = 1 THEN 6
              ELSE (LastSnap.interval * LastSnap.easinessFactor + 50) \div 100
        /\ Doc.repetitions = LastSnap.repetitions + 1
        /\ ( /\ LastSnap.easinessFactor = 250
             /\ LastSnap.repetitions = 2
             /\ LastSnap.interval = 6
             /\ last.rating = 4 ) => (Doc.interval = 15 /\ Doc.repetitions = 3)

SM2SuccessIntervalWitness ==
    /\ ReviewedSM2
    /\ last.rating = 4
    /\ LastSnap.easinessFactor = 250
    /\ LastSnap.repetitions = 2
    /\ LastSnap.interval = 6
    /\ Doc.interval = 15

\* C10: an SM-2 review with a rating below 3 adds one lapse and shows
\* relearning when the card showed review or mastered, else it leaves
\* lapses and shows learning; a rating of 3 or more leaves lapses
SM2Lapses ==
    ReviewedSM2 =>
        IF last.rating < 3
        THEN IF LastSnap.state \in {"review", "mastered"}
             THEN Doc.lapses = LastSnap.lapses + 1 /\ Doc.state = "relearning"
             ELSE Doc.lapses = LastSnap.lapses /\ Doc.state = "learning"
        ELSE Doc.lapses = LastSnap.lapses

SM2LapsesWitness ==
    /\ ReviewedSM2
    /\ last.rating = 1
    /\ LastSnap.state = "mastered"
    /\ Doc.state = "relearning"
    /\ Doc.lapses = 1

\* C11: after an SM-2 review with a rating of 3 or more the display state is
\* mastered when the new interval is 21 or more and review otherwise,
\* whatever the display state was
SM2SuccessState ==
    (ReviewedSM2 /\ last.rating >= 3) =>
        /\ LastSnap.state \in {"new", "learning", "relearning", "review", "mastered"}
        /\ Doc.state = IF Doc.interval >= 21 THEN "mastered" ELSE "review"

SM2SuccessStateWitness ==
    /\ ReviewedSM2
    /\ last.rating >= 3
    /\ LastSnap.state = "review"
    /\ LastSnap.interval = 15
    /\ Doc.interval >= 21
    /\ Doc.state = "mastered"

\* C12: the update of migrateToFSRS on a card owned by SM-2 sets algorithm to
\* fsrs, stability and scheduled_days to the interval the card has when the
\* update is applied, fsrsDifficulty to round(10 - ((EF - 1.3) / 1.2) * 9)
\* clamped to 1..10, fsrsState to the image of the display state and
\* elapsed_days and learning_steps to 0
MigrationFields ==
    [][ \A p \in Procs :
          (FinishMigrate(p) /\ db # {} /\ Doc.algorithm = "sm2") =>
              \A d \in db' :
                  /\ d.algorithm = "fsrs"
                  /\ d.stability = Doc.interval
                  /\ d.scheduled_days = Doc.interval
                  /\ d.fsrsDifficulty =
                        Max(1, Min(10, (1200 - 9 * (Doc.easinessFactor - 130) + 60) \div 120))
                  /\ d.fsrsState =
                        (CASE Doc.state = "new" -> StateNew
                           [] Doc.state = "learning" -> StateLearning
                           [] Doc.state = "review" -> StateReview
                           [] Doc.state = "relearning" -> StateRelearning
                           [] Doc.state = "mastered" -> StateReview)
                  /\ d.elapsed_days = 0
                  /\ d.learning_steps = 0 ]_vars

\* C13: migrateToFSRS run right after migrateToFSRS leaves the stored card
\* as the first run left it, and migrateToFSRS on a card owned by FSRS
\* changes no field of it
MigrationIdempotent ==
    [][ MigrateToFSRS =>
          /\ last.op = "migrateToFSRS" => db' = db
          /\ (db # {} /\ Doc.algorithm = "fsrs") => db' = db ]_vars

\* a second migration of a card that SM-2 had reviewed
MigrationIdempotentWitness ==
    /\ last.op = "migrateToFSRS"
    /\ last.pre = db
    /\ db # {}
    /\ LastSnap.algorithm = "fsrs"
    /\ Doc.repetitions >= 1
    /\ Doc.stability = Doc.interval
    /\ Doc.fsrsState = StateReview

\* the last operation was one of the two queries
Queried == last.op \in {"getSchedulingPreview", "getRetrievability"}

\* C14 as stated: the scheduling preview and the retrievability query leave
\* the set of stored cards and every field of each card as they were
QueriesLeaveStore ==
    Queried => db = last.pre

\* C14 amended: the two queries leave every field of a stored card as it
\* was; for a pair with no stored card they store the default FSRS card
QueriesLeaveCard ==
    Queried =>
        /\ last.pre # {} => db = last.pre
        /\ last.pre = {} =>
              /\ Cardinality(db) = 1
              /\ Doc.algorithm = "fsrs"
              /\ Doc.fsrsState = StateNew
              /\ Doc.state = "new"
              /\ Doc.totalReviews = 0
              /\ Doc.reviewHistory = << >>

QueriesLeaveCardWitness ==
    /\ last.op = "getSchedulingPreview"
    /\ last.pre # {}
    /\ db # {}
    /\ Doc.fsrsState = StateLearning
    /\ Doc.totalReviews = 1
    /\ Doc.nextReviewDate = now

\* C15: an FSRS review rated Again moves a card in Review to Relearning and
\* adds one lapse; it leaves a card in New, Learning or Relearning in a
\* learning step (Learning or Relearning) with its lapses
FsrsAgain ==
    (ReviewedFSRS /\ Doc.lastQuality = Again) =>
        IF LastSnap.fsrsState = StateReview
        THEN /\ Doc.fsrsState = StateRelearning
             /\ Doc.lapses = LastSnap.lapses + 1
        ELSE /\ Doc.fsrsState \in {StateLearning, StateRelearning}
             /\ Doc.lapses = LastSnap.lapses

FsrsAgainWitness ==
    /\ ReviewedFSRS
    /\ Doc.lastQuality = Again
    /\ LastSnap.fsrsState = StateReview
    /\ LastSnap.lapses = 0
    /\ Doc.fsrsState = StateRelearning
    /\ Doc.lapses = 1

\* C16 as stated: an FSRS review of a card in New moves it to Learning for
\* each of the ratings Again, Hard, Good and Easy
FsrsNewToLearning ==
    (ReviewedFSRS /\ LastSnap.fsrsState = StateNew) =>
        Doc.fsrsState = StateLearning

\* C16 amended: an FSRS review of a card in New moves it to Learning for the
\* ratings Again, Hard and Good and to Review for Easy
FsrsNewTransitions ==
    (ReviewedFSRS /\ LastSnap.fsrsState = StateNew) =>
        /\ Doc.lastQuality \in {Again, Hard, Good} => Doc.fsrsState = StateLearning
        /\ Doc.lastQuality = Easy => Doc.fsrsState = StateReview
        /\ Doc.lastQuality \in {Again, Hard, Good, Easy}

FsrsNewTransitionsWitness ==
    /\ ReviewedFSRS
    /\ LastSnap.fsrsState = StateNew
    /\ LastSnap.totalReviews = 0
    /\ Doc.lastQuality = Easy
    /\ Doc.fsrsState = StateReview
    /\ Doc.scheduled_days > 0

\* C17: after an FSRS review the display state is mastered exactly when the
\* new stability is above 30 and the new scheduled_days above 21, and else
\* the image of the new fsrsState
FsrsDisplayState ==
    ReviewedFSRS =>
        Doc.state =
            IF Doc.stability > 30 /\ Doc.scheduled_days > 21 THEN "mastered"
            ELSE CASE Doc.fsrsState = StateNew -> "new"
                   [] Doc.fsrsState = StateLearning -> "learning"
                   [] Doc.fsrsState = StateReview -> "review"
                   [] Doc.fsrsState = StateRelearning -> "relearning"

FsrsDisplayStateWitness ==
    /\ ReviewedFSRS
    /\ LastSnap.state = "learning"
    /\ Doc.stability > 30
    /\ Doc.scheduled_days > 21
    /\ Doc.fsrsState = StateReview
    /\ Doc.state = "mastered"

\* C18: the nextReviewDate of a stored card changes only in processReview
\* and resetCard; suspendCard, unsuspendCard, migrateToFSRS, the scheduling
\* preview and the retrievability query leave it as it was
NextReviewDateFrame ==
    /\ \A b \in last.pre, c \in db :
          c.nextReviewDate # b.nextReviewDate =>
              last.op \in {"processReview", "resetCard"}
    /\ last.op \in {"suspendCard", "unsuspendCard", "migrateToFSRS",
                     "getSchedulingPreview", "getRetrievability"} =>
          \A b \in last.pre, c \in db : c.nextReviewDate = b.nextReviewDate

NextReviewDateFrameWitness ==
    /\ last.op = "suspendCard"
    /\ db # {}
    /\ \E b \in last.pre : ~b.isSuspended /\ b.nextReviewDate > now
    /\ Doc.isSuspended
    /\ Doc.nextReviewDate > now

\* C19: when two reviews read the same stored card before either saves,
\* the card stored by the later save is the card that review computed from
\* the common one: totalReviews and reviewHistory have grown by one and
\* nothing of the earlier review remains
LastWriteWins ==
    [][ \A p \in Procs, out \in ConcOutcomes :
          LET r == inflight[p]
              S == CHOOSE c \in r.snap : TRUE
          IN  ( /\ FinishReview(p, out)
                /\ \E in \in ConcInputs, o \in ConcOutcomes :
                      db = { ReviewComputed(S, in[1], in[2], r.t, o) } ) =>
                  /\ db' = { ReviewComputed(S, r.rating, r.legacy, r.t, out) }
                  /\ \A d \in db' :
                        /\ d.totalReviews = S.totalReviews + 1
                        /\ Len(d.reviewHistory) = Len(S.reviewHistory) + 1 ]_vars

\* C20: the step that ends a processReview either leaves the stored card as
\* it was or writes everything the review computed: the one new ledger
\* entry with its final intervalAfter, totalReviews, the counter of the
\* answer and every field the review changed; when no other request wrote
\* the card since the review read it, the stored card is the computed one,
\* lastQuality included
ReviewAllOrNothing ==
    [][ \A p \in Procs :
          LET r == inflight[p]
              S == CHOOSE c \in r.snap : TRUE
          IN  (r.kind = "review" /\ r.pc = "loaded" /\ inflight'[p].pc = "idle") =>
                \/ db' = db
                \/ \E out \in ConcOutcomes :
                      LET doc == ReviewComputed(S, r.rating, r.legacy, r.t, out)
                          e   == doc.reviewHistory[Len(doc.reviewHistory)]
                      IN  \A d \in db' :
                            /\ d.reviewHistory = Append(Doc.reviewHistory, e)
                            /\ e.intervalAfter = doc.interval
                            /\ S.algorithm = "sm2" => e.intervalAfter >= 1
                            /\ d.totalReviews = S.totalReviews + 1
                            /\ IF e.quality >= 3
                               THEN d.correctCount = S.correctCount + 1
                               ELSE d.incorrectCount = S.incorrectCount + 1
                            /\ \A f \in DOMAIN doc \ {"reviewHistory"} :
                                  doc[f] # S[f] => d[f] = doc[f]
                            /\ db = r.snap =>
                                  /\ d = doc
                                  /\ d.lastQuality = e.quality
                                  /\ d.lastReviewDate = r.t ]_vars

\* an SM-2 review written whole after the review of another request
ReviewAllOrNothingWitness ==
    /\ db # {}
    /\ Doc.algorithm = "sm2"
    /\ Len(Doc.reviewHistory) = 2
    /\ Doc.reviewHistory[2].quality = 4
    /\ Doc.reviewHistory[2].intervalAfter = 1
    /\ Doc.repetitions = 1
    /\ Doc.correctCount = 1
    /\ Doc.totalReviews = 1
    /\ \A p \in Procs : inflight[p].pc = "idle"

\* C21: there is at most one stored card for the pair in every state, also
\* when two first requests interleave, and the card a first request stores
\* is owned by FSRS, in fsrsState New, with no review
OneCardPerPair ==
    [][ /\ Cardinality(db') <= 1
        /\ (db = {} /\ db' # {}) =>
              \A d \in db' : /\ d.algorithm = "fsrs"
                              /\ d.fsrsState = StateNew
                              /\ d.state = "new"
                              /\ d.stability = 0
                              /\ d.fsrsDifficulty = 0
                              /\ d.totalReviews = 0
                              /\ d.reviewHistory = << >> ]_vars

\* a first request that found no card is about to insert while the card of
\* another first request is stored and already reviewed
OneCardPerPairWitness ==
    /\ Cardinality(db) = 1
    /\ Doc.algorithm = "fsrs"
    /\ Doc.totalReviews = 1
    /\ Doc.repetitions = 0
    /\ \E p \in Procs : inflight[p].pc = "creating"

\* C22: in every state the stability of the card is 0 or more and its
\* difficulty is within 0..10, after resetCard and after migrateToFSRS from
\* an easiness factor above 2.5 too
StabilityDifficultyRange ==
    \A c \in db : /\ c.stability >= 0
                   /\ c.fsrsDifficulty >= 0
                   /\ c.fsrsDifficulty <= 10

\* a migration from easiness factor 2.8, where the formula gives -1
StabilityDifficultyRangeWitness ==
    /\ last.op = "migrateToFSRS"
    /\ last.snap # {}
    /\ LastSnap.algorithm = "sm2"
    /\ LastSnap.easinessFactor = 280
    /\ 1200 - 9 * (LastSnap.easinessFactor - 130) < 0
    /\ db # {}
    /\ Doc.fsrsDifficulty = 1
    /\ Doc.stability = LastSnap.interval


\* C23: getRetrievability returns exactly 0 for a card whose fsrsState is New
\* or whose stability is 0, and a number in the closed range [0, 1] for
\* every other card and every time of the query.
RetrievabilityRange ==
    (last.op = "getRetrievability" /\ last.snap # {}) =>
        LET r == Retrievability(LastSnap, now)
        IN  /\ (LastSnap.fsrsState = StateNew \/ LastSnap.stability = 0) => r = Zero
            /\ ~r.nan
            /\ r.den > 0
            /\ 0 <= r.num
            /\ r.num <= r.den

\* a card reviewed under FSRS is queried two days after its review and the
\* curve gives a number strictly between 0 and 1
RetrievabilityRangeWitness ==
    /\ last.op = "getRetrievability" /\ last.snap # {}
    /\ LastSnap.fsrsState # StateNew
    /\ LastSnap.stability = 1
    /\ LastSnap.lastReviewDate # NoDate
    /\ now - LastSnap.lastReviewDate = 2
    /\ Retrievability(LastSnap, now) = Number(81, 119)


\* C24: the ledger entry of a review has as intervalBefore the interval of
\* the card before the review (interval under SM-2, scheduled_days under
\* FSRS) and as intervalAfter the interval the review produced; once the
\* review is stored, the intervalAfter of the last entry is the interval
\* (SM-2) or the scheduled_days (FSRS) of the card.
LedgerIntervals ==
    /\ ReviewedSM2 =>
          /\ LastEntry.intervalBefore = LastSnap.interval
          /\ LastEntry.intervalAfter = SM2NextInterval(LastSnap, last.rating)
          /\ LastEntry.intervalAfter = Doc.interval
    /\ ReviewedFSRS =>
          /\ LastEntry.intervalBefore = LastSnap.scheduled_days
          /\ LastEntry.intervalAfter = Doc.scheduled_days
          /\ \E out \in FsrsOutcomes :
                LastEntry.intervalAfter =
                    FsrsProcessReview(LastSnap, FsrsRatingOf(last.rating, last.legacy),
                                      now, out).scheduled_days

\* a second successful SM-2 review takes the interval from 1 to 6, and so
\* does its ledger entry
LedgerIntervalsWitness ==
    /\ ReviewedSM2
    /\ LastSnap.interval = 1
    /\ Doc.interval = 6
    /\ LastEntry.intervalBefore = 1
    /\ LastEntry.intervalAfter = 6


\* C25: a legacy quality 0..5 posted to the answer route without a rating
\* is applied to an FSRS card as qualityToRating(quality): Again for 0..2,
\* Hard for 3, Good for 4 and Easy for 5.
AnswerRouteLegacyQuality ==
    (/\ last.op = "answerQuality" /\ last.legacy
     /\ last.snap # {} /\ LastSnap.algorithm = "fsrs" /\ db # {}) =>
        /\ Doc.lastQuality = QualityToRating(last.rating)
        /\ LastEntry.quality = QualityToRating(last.rating)


\* C26: the algorithm field of a ledger entry names the scheduler that
\* processed the review: sm2 for an entry of the SM-2 scheduler, fsrs for an
\* entry of the FSRS scheduler.
LedgerAlgorithm ==
    /\ ReviewedSM2 => LastEntry.algorithm = "sm2"
    /\ ReviewedFSRS => LastEntry.algorithm = "fsrs"


\* C27: in a run of reviews and migrations of one card with no reset, the
\* intervalBefore of every ledger entry is the intervalAfter of the entry
\* before it, and 0 for the first entry, also when a migration from SM-2 to
\* FSRS lies between the two entries.
LedgerChain ==
    \A c \in db :
        \A i \in 1..Len(c.reviewHistory) :
            c.reviewHistory[i].intervalBefore =
                IF i = 1 THEN 0 ELSE c.reviewHistory[i - 1].intervalAfter

\* two SM-2 successes (intervals 1 and 6), a migration, then an FSRS review
\* whose entry starts from 6
LedgerChainWitness ==
    /\ ReviewedFSRS
    /\ Len(Doc.reviewHistory) = 3
    /\ Doc.reviewHistory[2].intervalBefore = 1
    /\ Doc.reviewHistory[2].intervalAfter = 6
    /\ LastSnap.easinessFactor # InitialEF
    /\ LastEntry.intervalBefore = 6
    /\ LastEntry.intervalAfter # 6


\* C28: after resetCard every scheduling and statistics field of the card
\* is that of a freshly created card, last review date and last rating
\* included, while algorithm, isSuspended and reviewHistory are as before.
ResetRestoresDefaults ==
    (last.op = "resetCard" /\ last.pre # {} /\ db # {}) =>
        LET before == CHOOSE c \in last.pre : TRUE
            fresh  == NewProgress(before.algorithm, Doc.nextReviewDate)
        IN  /\ \A f \in DOMAIN fresh \ {"algorithm", "isSuspended", "reviewHistory"} :
                  Doc[f] = fresh[f]
            /\ Doc.algorithm = before.algorithm
            /\ Doc.isSuspended = before.isSuspended
            /\ Doc.reviewHistory = before.reviewHistory


\* C29: under SM-2, successful reviews in a row (quality 3..5, no failure,
\* reset or migration between them) bring the card to mastered: from every
\* reachable SM-2 card and for every choice of the qualities, at most
\* MaxSuccesses successes make the interval 21 or more, and from
\* repetitions >= 2 on every success makes the interval strictly longer.
SM2SuccessesReachMastered ==
    /\ \A c \in db :
          c.algorithm = "sm2" =>
              /\ MasteredWithin(c, now, MaxSuccesses)
              /\ c.repetitions >= 2 =>
                    \A q \in SuccessRatings : SM2NextInterval(c, q) > c.interval
    /\ (ReviewedSM2 /\ last.rating >= 3 /\ LastSnap.repetitions >= 2) =>
          Doc.interval > LastSnap.interval

\* the third success in a row takes the interval from 6 to 13: the card is
\* not mastered yet, and one more success masters it
SM2SuccessesReachMasteredWitness ==
    /\ ReviewedSM2 /\ last.rating = 3
    /\ LastSnap.repetitions = 2
    /\ LastSnap.interval = 6
    /\ Doc.interval = 13
    /\ Doc.state = "review"
    /\ MasteredWithin(Doc, now, 1)


\* C30: the card list getStudySession returns holds every card at most
\* once, whatever the display states, due dates and suspension flags of the
\* cards, the limits and the value of learningFirst.
SessionCardsDistinct ==
    last.op = "getStudySession" =>
        \A i, j \in 1..Len(last.cards) :
            i # j => last.cards[i].flashcardId # last.cards[j].flashcardId

====
